---- MODULE Spec2Model ----
(***************************************************************************)
(* Model of the dd_log extraction-and-ranking pipeline:                    *)
(*   src/utils/dd_utils.py  FilterParams.apply, DD373Product.              *)
(*                          from_html_element, _filter_valid_offer_item,   *)
(*                          get_dd_min_price                               *)
(*   src/main.py            process, write_to_log_cell                     *)
(*                                                                         *)
(* Text is a sequence of characters.  A printable ASCII character is the   *)
(* one-character string of itself; every other character is the string     *)
(* "U+" followed by its code point in four or more upper-case hexadecimal  *)
(* digits: "U+5143" is the yuan sign the sell rates end in, "U+94BB" the   *)
(* game-currency unit of the rate strings, "U+4E2A" the counter word that  *)
(* follows a bundle quantity, "U+FFE5" the full-width yen sign of the      *)
(* price, "U+000A" the line feed, "U+FF13" the full-width digit three.     *)
(* Optional values (Python None) are sequences: <<>> is None, <<v>> is v.  *)
(* A float is an IEEE 754 binary64 value, held as its sign bit, its biased *)
(* exponent and the 52 bits of its fraction, most significant first.       *)
(* Integers stay below 2^31: a text of the model holds at most nine digits *)
(* in a row.                                                               *)
(***************************************************************************)
EXTENDS Integers, Sequences, FiniteSets, TLC

VARIABLES
    \* FilterParams.apply called on its own
    f_params, f_product, f_result, f_pc,
    \* DD373Product.from_html_element
    item, sel, product, epc,
    \* get_dd_min_price / _filter_valid_offer_item
    heap, listOffers, snapshot, filterParams, valid_offers, dd_min_price, rpc,
    \* process
    row_indexes, cells, cells0, writes, outcome, idx, ppc, status, min_price

f_vars == <<f_params, f_product, f_result, f_pc>>
e_vars == <<item, sel, product, epc>>
r_vars == <<heap, listOffers, snapshot, filterParams, valid_offers, dd_min_price, rpc>>
p_vars == <<row_indexes, cells, cells0, writes, outcome, idx, ppc, status, min_price>>
vars == <<f_vars, e_vars, r_vars, p_vars>>

None == <<>>
Some(v) == <<v>>

(***************************************************************************)
(* Character classes of CPython 3.11 (Unicode 14.0).                       *)
(* DigitRows: the decimal digits (category Nd), the characters \d matches  *)
(* and int() and float() read; each row is one script's digits 0 to 9.     *)
(* OtherDigits: the characters str.isdigit() accepts that are no decimal   *)
(* digits (superscripts, circled digits, ...).                             *)
(* Whitespace: the characters str.strip() removes.                         *)
(***************************************************************************)
DigitRows == <<
    <<"0", "1", "2", "3", "4", "5", "6", "7", "8", "9">>,
    <<"U+0660", "U+0661", "U+0662", "U+0663", "U+0664", "U+0665", "U+0666", "U+0667", "U+0668", "U+0669">>,
    <<"U+06F0", "U+06F1", "U+06F2", "U+06F3", "U+06F4", "U+06F5", "U+06F6", "U+06F7", "U+06F8", "U+06F9">>,
    <<"U+07C0", "U+07C1", "U+07C2", "U+07C3", "U+07C4", "U+07C5", "U+07C6", "U+07C7", "U+07C8", "U+07C9">>,
    <<"U+0966", "U+0967", "U+0968", "U+0969", "U+096A", "U+096B", "U+096C", "U+096D", "U+096E", "U+096F">>,
    <<"U+09E6", "U+09E7", "U+09E8", "U+09E9", "U+09EA", "U+09EB", "U+09EC", "U+09ED", "U+09EE", "U+09EF">>,
    <<"U+0A66", "U+0A67", "U+0A68", "U+0A69", "U+0A6A", "U+0A6B", "U+0A6C", "U+0A6D", "U+0A6E", "U+0A6F">>,
    <<"U+0AE6", "U+0AE7", "U+0AE8", "U+0AE9", "U+0AEA", "U+0AEB", "U+0AEC", "U+0AED", "U+0AEE", "U+0AEF">>,
    <<"U+0B66", "U+0B67", "U+0B68", "U+0B69", "U+0B6A", "U+0B6B", "U+0B6C", "U+0B6D", "U+0B6E", "U+0B6F">>,
    <<"U+0BE6", "U+0BE7", "U+0BE8", "U+0BE9", "U+0BEA", "U+0BEB", "U+0BEC", "U+0BED", "U+0BEE", "U+0BEF">>,
    <<"U+0C66", "U+0C67", "U+0C68", "U+0C69", "U+0C6A", "U+0C6B", "U+0C6C", "U+0C6D", "U+0C6E", "U+0C6F">>,
    <<"U+0CE6", "U+0CE7", "U+0CE8", "U+0CE9", "U+0CEA", "U+0CEB", "U+0CEC", "U+0CED", "U+0CEE", "U+0CEF">>,
    <<"U+0D66", "U+0D67", "U+0D68", "U+0D69", "U+0D6A", "U+0D6B", "U+0D6C", "U+0D6D", "U+0D6E", "U+0D6F">>,
    <<"U+0DE6", "U+0DE7", "U+0DE8", "U+0DE9", "U+0DEA", "U+0DEB", "U+0DEC", "U+0DED", "U+0DEE", "U+0DEF">>,
    <<"U+0E50", "U+0E51", "U+0E52", "U+0E53", "U+0E54", "U+0E55", "U+0E56", "U+0E57", "U+0E58", "U+0E59">>,
    <<"U+0ED0", "U+0ED1", "U+0ED2", "U+0ED3", "U+0ED4", "U+0ED5", "U+0ED6", "U+0ED7", "U+0ED8", "U+0ED9">>,
    <<"U+0F20", "U+0F21", "U+0F22", "U+0F23", "U+0F24", "U+0F25", "U+0F26", "U+0F27", "U+0F28", "U+0F29">>,
    <<"U+1040", "U+1041", "U+1042", "U+1043", "U+1044", "U+1045", "U+1046", "U+1047", "U+1048", "U+1049">>,
    <<"U+1090", "U+1091", "U+1092", "U+1093", "U+1094", "U+1095", "U+1096", "U+1097", "U+1098", "U+1099">>,
    <<"U+17E0", "U+17E1", "U+17E2", "U+17E3", "U+17E4", "U+17E5", "U+17E6", "U+17E7", "U+17E8", "U+17E9">>,
    <<"U+1810", "U+1811", "U+1812", "U+1813", "U+1814", "U+1815", "U+1816", "U+1817", "U+1818", "U+1819">>,
    <<"U+1946", "U+1947", "U+1948", "U+1949", "U+194A", "U+194B", "U+194C", "U+194D", "U+194E", "U+194F">>,
    <<"U+19D0", "U+19D1", "U+19D2", "U+19D3", "U+19D4", "U+19D5", "U+19D6", "U+19D7", "U+19D8", "U+19D9">>,
    <<"U+1A80", "U+1A81", "U+1A82", "U+1A83", "U+1A84", "U+1A85", "U+1A86", "U+1A87", "U+1A88", "U+1A89">>,
    <<"U+1A90", "U+1A91", "U+1A92", "U+1A93", "U+1A94", "U+1A95", "U+1A96", "U+1A97", "U+1A98", "U+1A99">>,
    <<"U+1B50", "U+1B51", "U+1B52", "U+1B53", "U+1B54", "U+1B55", "U+1B56", "U+1B57", "U+1B58", "U+1B59">>,
    <<"U+1BB0", "U+1BB1", "U+1BB2", "U+1BB3", "U+1BB4", "U+1BB5", "U+1BB6", "U+1BB7", "U+1BB8", "U+1BB9">>,
    <<"U+1C40", "U+1C41", "U+1C42", "U+1C43", "U+1C44", "U+1C45", "U+1C46", "U+1C47", "U+1C48", "U+1C49">>,
    <<"U+1C50", "U+1C51", "U+1C52", "U+1C53", "U+1C54", "U+1C55", "U+1C56", "U+1C57", "U+1C58", "U+1C59">>,
    <<"U+A620", "U+A621", "U+A622", "U+A623", "U+A624", "U+A625", "U+A626", "U+A627", "U+A628", "U+A629">>,
    <<"U+A8D0", "U+A8D1", "U+A8D2", "U+A8D3", "U+A8D4", "U+A8D5", "U+A8D6", "U+A8D7", "U+A8D8", "U+A8D9">>,
    <<"U+A900", "U+A901", "U+A902", "U+A903", "U+A904", "U+A905", "U+A906", "U+A907", "U+A908", "U+A909">>,
    <<"U+A9D0", "U+A9D1", "U+A9D2", "U+A9D3", "U+A9D4", "U+A9D5", "U+A9D6", "U+A9D7", "U+A9D8", "U+A9D9">>,
    <<"U+A9F0", "U+A9F1", "U+A9F2", "U+A9F3", "U+A9F4", "U+A9F5", "U+A9F6", "U+A9F7", "U+A9F8", "U+A9F9">>,
    <<"U+AA50", "U+AA51", "U+AA52", "U+AA53", "U+AA54", "U+AA55", "U+AA56", "U+AA57", "U+AA58", "U+AA59">>,
    <<"U+ABF0", "U+ABF1", "U+ABF2", "U+ABF3", "U+ABF4", "U+ABF5", "U+ABF6", "U+ABF7", "U+ABF8", "U+ABF9">>,
    <<"U+FF10", "U+FF11", "U+FF12", "U+FF13", "U+FF14", "U+FF15", "U+FF16", "U+FF17", "U+FF18", "U+FF19">>,
    <<"U+104A0", "U+104A1", "U+104A2", "U+104A3", "U+104A4", "U+104A5", "U+104A6", "U+104A7", "U+104A8", "U+104A9">>,
    <<"U+10D30", "U+10D31", "U+10D32", "U+10D33", "U+10D34", "U+10D35", "U+10D36", "U+10D37", "U+10D38", "U+10D39">>,
    <<"U+11066", "U+11067", "U+11068", "U+11069", "U+1106A", "U+1106B", "U+1106C", "U+1106D", "U+1106E", "U+1106F">>,
    <<"U+110F0", "U+110F1", "U+110F2", "U+110F3", "U+110F4", "U+110F5", "U+110F6", "U+110F7", "U+110F8", "U+110F9">>,
    <<"U+11136", "U+11137", "U+11138", "U+11139", "U+1113A", "U+1113B", "U+1113C", "U+1113D", "U+1113E", "U+1113F">>,
    <<"U+111D0", "U+111D1", "U+111D2", "U+111D3", "U+111D4", "U+111D5", "U+111D6", "U+111D7", "U+111D8", "U+111D9">>,
    <<"U+112F0", "U+112F1", "U+112F2", "U+112F3", "U+112F4", "U+112F5", "U+112F6", "U+112F7", "U+112F8", "U+112F9">>,
    <<"U+11450", "U+11451", "U+11452", "U+11453", "U+11454", "U+11455", "U+11456", "U+11457", "U+11458", "U+11459">>,
    <<"U+114D0", "U+114D1", "U+114D2", "U+114D3", "U+114D4", "U+114D5", "U+114D6", "U+114D7", "U+114D8", "U+114D9">>,
    <<"U+11650", "U+11651", "U+11652", "U+11653", "U+11654", "U+11655", "U+11656", "U+11657", "U+11658", "U+11659">>,
    <<"U+116C0", "U+116C1", "U+116C2", "U+116C3", "U+116C4", "U+116C5", "U+116C6", "U+116C7", "U+116C8", "U+116C9">>,
    <<"U+11730", "U+11731", "U+11732", "U+11733", "U+11734", "U+11735", "U+11736", "U+11737", "U+11738", "U+11739">>,
    <<"U+118E0", "U+118E1", "U+118E2", "U+118E3", "U+118E4", "U+118E5", "U+118E6", "U+118E7", "U+118E8", "U+118E9">>,
    <<"U+11950", "U+11951", "U+11952", "U+11953", "U+11954", "U+11955", "U+11956", "U+11957", "U+11958", "U+11959">>,
    <<"U+11C50", "U+11C51", "U+11C52", "U+11C53", "U+11C54", "U+11C55", "U+11C56", "U+11C57", "U+11C58", "U+11C59">>,
    <<"U+11D50", "U+11D51", "U+11D52", "U+11D53", "U+11D54", "U+11D55", "U+11D56", "U+11D57", "U+11D58", "U+11D59">>,
    <<"U+11DA0", "U+11DA1", "U+11DA2", "U+11DA3", "U+11DA4", "U+11DA5", "U+11DA6", "U+11DA7", "U+11DA8", "U+11DA9">>,
    <<"U+16A60", "U+16A61", "U+16A62", "U+16A63", "U+16A64", "U+16A65", "U+16A66", "U+16A67", "U+16A68", "U+16A69">>,
    <<"U+16AC0", "U+16AC1", "U+16AC2", "U+16AC3", "U+16AC4", "U+16AC5", "U+16AC6", "U+16AC7", "U+16AC8", "U+16AC9">>,
    <<"U+16B50", "U+16B51", "U+16B52", "U+16B53", "U+16B54", "U+16B55", "U+16B56", "U+16B57", "U+16B58", "U+16B59">>,
    <<"U+1D7CE", "U+1D7CF", "U+1D7D0", "U+1D7D1", "U+1D7D2", "U+1D7D3", "U+1D7D4", "U+1D7D5", "U+1D7D6", "U+1D7D7">>,
    <<"U+1D7D8", "U+1D7D9", "U+1D7DA", "U+1D7DB", "U+1D7DC", "U+1D7DD", "U+1D7DE", "U+1D7DF", "U+1D7E0", "U+1D7E1">>,
    <<"U+1D7E2", "U+1D7E3", "U+1D7E4", "U+1D7E5", "U+1D7E6", "U+1D7E7", "U+1D7E8", "U+1D7E9", "U+1D7EA", "U+1D7EB">>,
    <<"U+1D7EC", "U+1D7ED", "U+1D7EE", "U+1D7EF", "U+1D7F0", "U+1D7F1", "U+1D7F2", "U+1D7F3", "U+1D7F4", "U+1D7F5">>,
    <<"U+1D7F6", "U+1D7F7", "U+1D7F8", "U+1D7F9", "U+1D7FA", "U+1D7FB", "U+1D7FC", "U+1D7FD", "U+1D7FE", "U+1D7FF">>,
    <<"U+1E140", "U+1E141", "U+1E142", "U+1E143", "U+1E144", "U+1E145", "U+1E146", "U+1E147", "U+1E148", "U+1E149">>,
    <<"U+1E2F0", "U+1E2F1", "U+1E2F2", "U+1E2F3", "U+1E2F4", "U+1E2F5", "U+1E2F6", "U+1E2F7", "U+1E2F8", "U+1E2F9">>,
    <<"U+1E950", "U+1E951", "U+1E952", "U+1E953", "U+1E954", "U+1E955", "U+1E956", "U+1E957", "U+1E958", "U+1E959">>,
    <<"U+1FBF0", "U+1FBF1", "U+1FBF2", "U+1FBF3", "U+1FBF4", "U+1FBF5", "U+1FBF6", "U+1FBF7", "U+1FBF8", "U+1FBF9">>>>

OtherDigits == {
    "U+00B2", "U+00B3", "U+00B9", "U+1369", "U+136A", "U+136B", "U+136C", "U+136D",
    "U+136E", "U+136F", "U+1370", "U+1371", "U+19DA", "U+2070", "U+2074", "U+2075",
    "U+2076", "U+2077", "U+2078", "U+2079", "U+2080", "U+2081", "U+2082", "U+2083",
    "U+2084", "U+2085", "U+2086", "U+2087", "U+2088", "U+2089", "U+2460", "U+2461",
    "U+2462", "U+2463", "U+2464", "U+2465", "U+2466", "U+2467", "U+2468", "U+2474",
    "U+2475", "U+2476", "U+2477", "U+2478", "U+2479", "U+247A", "U+247B", "U+247C",
    "U+2488", "U+2489", "U+248A", "U+248B", "U+248C", "U+248D", "U+248E", "U+248F",
    "U+2490", "U+24EA", "U+24F5", "U+24F6", "U+24F7", "U+24F8", "U+24F9", "U+24FA",
    "U+24FB", "U+24FC", "U+24FD", "U+24FF", "U+2776", "U+2777", "U+2778", "U+2779",
    "U+277A", "U+277B", "U+277C", "U+277D", "U+277E", "U+2780", "U+2781", "U+2782",
    "U+2783", "U+2784", "U+2785", "U+2786", "U+2787", "U+2788", "U+278A", "U+278B",
    "U+278C", "U+278D", "U+278E", "U+278F", "U+2790", "U+2791", "U+2792", "U+10A40",
    "U+10A41", "U+10A42", "U+10A43", "U+10E60", "U+10E61", "U+10E62", "U+10E63", "U+10E64",
    "U+10E65", "U+10E66", "U+10E67", "U+10E68", "U+11052", "U+11053", "U+11054", "U+11055",
    "U+11056", "U+11057", "U+11058", "U+11059", "U+1105A", "U+1F100", "U+1F101", "U+1F102",
    "U+1F103", "U+1F104", "U+1F105", "U+1F106", "U+1F107", "U+1F108", "U+1F109", "U+1F10A"}

Whitespace == {
    "U+0009", "U+000A", "U+000B", "U+000C", "U+000D", "U+001C", "U+001D", "U+001E",
    "U+001F", " ", "U+0085", "U+00A0", "U+1680", "U+2000", "U+2001", "U+2002",
    "U+2003", "U+2004", "U+2005", "U+2006", "U+2007", "U+2008", "U+2009", "U+200A",
    "U+2028", "U+2029", "U+202F", "U+205F", "U+3000"}

Digits == {DigitRows[r][k] : r \in 1..Len(DigitRows), k \in 1..10}

DigitChars == DigitRows[1]

DigitVal(c) == CHOOSE v \in 0..9 : \E r \in 1..Len(DigitRows) : DigitRows[r][v + 1] = c

(***************************************************************************)
(* Text helpers: the str methods and regular expressions the code uses.    *)
(***************************************************************************)
\* the values of the digits of a text of decimal digits
digit_values(digits) == [i \in 1..Len(digits) |-> DigitVal(digits[i])]

\* A natural number has no bound on its size: it is held as its digits,
\* most significant first and without a leading 0; <<>> is zero.  An int is
\* held in decimal digits; binary digits carry the rounding of floats.
\* BigNorm drops the leading zeros, BigShl appends k zeros (a * base^k),
\* BigPad writes a in n digits.
BigNorm(a) ==
    IF \A i \in 1..Len(a) : a[i] = 0 THEN <<>>
    ELSE SubSeq(a, CHOOSE i \in 1..Len(a) : a[i] # 0 /\ \A j \in 1..(i - 1) : a[j] = 0, Len(a))

BigShl(a, k) == IF Len(a) = 0 THEN a ELSE a \o [i \in 1..k |-> 0]

BigPad(a, n) == [i \in 1..(n - Len(a)) |-> 0] \o a

\* the int of a small natural number, and the number of a small int
RECURSIVE IntOf(_)
IntOf(n) == IF n = 0 THEN <<>> ELSE Append(IntOf(n \div 10), n % 10)

RECURSIVE NatOf(_)
NatOf(a) == IF Len(a) = 0 THEN 0 ELSE 10 * NatOf(SubSeq(a, 1, Len(a) - 1)) + a[Len(a)]

\* sys.int_max_str_digits: the most digits int() converts
IntMaxStrDigits == 4300

\* int(s) of a run of decimal digits
ToInt(s) == BigNorm(digit_values(s))

\* str.strip()
RECURSIVE strip(_)
strip(s) ==
    IF Len(s) = 0 THEN s
    ELSE IF s[1] \in Whitespace THEN strip(Tail(s))
    ELSE IF s[Len(s)] \in Whitespace THEN strip(SubSeq(s, 1, Len(s) - 1))
    ELSE s

\* str.isdigit(): non-empty and every character a digit, decimal or not
isdigit(s) == Len(s) > 0 /\ \A i \in 1..Len(s) : s[i] \in Digits \cup OtherDigits

\* int(s) raises ValueError: called on a text of digits, it does so when
\* the text has more than IntMaxStrDigits characters, leading zeros
\* counted, or a character of it is no decimal digit
int_raises(s) == Len(s) > IntMaxStrDigits \/ \E i \in 1..Len(s) : s[i] \notin Digits

\* c in s
Contains(s, c) == \E i \in 1..Len(s) : s[i] = c

\* s.find(c): position of the first c, 0 when there is none
IndexOf(s, c) ==
    IF Contains(s, c) THEN CHOOSE i \in 1..Len(s) : s[i] = c /\ \A j \in 1..(i - 1) : s[j] # c
    ELSE 0

\* s.split(c): the list of pieces between the occurrences of c
RECURSIVE split(_, _)
split(s, c) ==
    IF ~Contains(s, c) THEN <<s>>
    ELSE <<SubSeq(s, 1, IndexOf(s, c) - 1)>> \o split(SubSeq(s, IndexOf(s, c) + 1, Len(s)), c)

\* s.replace(c, '')
RECURSIVE remove(_, _)
remove(s, c) ==
    IF Len(s) = 0 THEN s
    ELSE IF s[1] = c THEN remove(Tail(s), c)
    ELSE <<s[1]>> \o remove(Tail(s), c)

\* re.sub(r'[^\d.]', '', s): keep the decimal digits and the periods
RECURSIVE keep_digits_and_periods(_)
keep_digits_and_periods(s) ==
    IF Len(s) = 0 THEN s
    ELSE IF s[1] \in Digits \cup {"."} THEN <<s[1]>> \o keep_digits_and_periods(Tail(s))
    ELSE keep_digits_and_periods(Tail(s))

\* re.search(r'\d+', s).group(): the first maximal run of decimal digits,
\* None when s holds none
digit_run(s) ==
    IF \A i \in 1..Len(s) : s[i] \in Digits THEN s
    ELSE SubSeq(s, 1, (CHOOSE i \in 1..Len(s) :
                            s[i] \notin Digits /\ \A j \in 1..(i - 1) : s[j] \in Digits) - 1)

search_digits(s) ==
    IF \E i \in 1..Len(s) : s[i] \in Digits
    THEN Some(digit_run(SubSeq(s, CHOOSE i \in 1..Len(s) :
                                     s[i] \in Digits /\ \A j \in 1..(i - 1) : s[j] \notin Digits,
                               Len(s))))
    ELSE None

(***************************************************************************)
(* Natural numbers of any size, as their binary digits, most significant   *)
(* first and without a leading 0; <<>> is zero.  They carry the exact      *)
(* arithmetic behind the rounding of float() and of the float division.    *)
(***************************************************************************)
RECURSIVE BigOfInt(_)
BigOfInt(n) == IF n = 0 THEN <<>> ELSE Append(BigOfInt(n \div 2), n % 2)

BigLess(a, b) ==
    \/ Len(a) < Len(b)
    \/ /\ Len(a) = Len(b)
       /\ \E i \in 1..Len(a) : a[i] < b[i] /\ \A j \in 1..(i - 1) : a[j] = b[j]

\* a + b in the base given, for a and b of n digits each, in n + 1 digits:
\* a carry comes into digit i when the nearest digit after it where the
\* two digits do not add up to base - 1 is one where they add up to the
\* base or more
AddDigits(a, b, n, base) ==
    [i \in 0..n |->
        LET carry ==
                /\ \E j \in (i + 1)..n : a[j] + b[j] # base - 1
                /\ LET first == CHOOSE j \in (i + 1)..n :
                                    /\ a[j] + b[j] # base - 1
                                    /\ \A k \in (i + 1)..(j - 1) : a[k] + b[k] = base - 1
                   IN a[first] + b[first] >= base
        IN ((IF i = 0 THEN 0 ELSE a[i] + b[i]) + (IF carry THEN 1 ELSE 0)) % base]

BigAdd(a, b) ==
    IF Len(a) = 0 THEN b
    ELSE IF Len(b) = 0 THEN a
    ELSE LET longest == IF Len(a) > Len(b) THEN Len(a) ELSE Len(b)
             total == AddDigits(BigPad(a, longest), BigPad(b, longest), longest, 2)
         IN BigNorm([i \in 1..(longest + 1) |-> total[i - 1]])

(***************************************************************************)
(* Arithmetic of ints.                                                     *)
(***************************************************************************)
IntAdd(a, b) ==
    LET longest == IF Len(a) > Len(b) THEN Len(a) ELSE Len(b)
        total == AddDigits(BigPad(a, longest), BigPad(b, longest), longest, 10)
    IN BigNorm([i \in 1..(longest + 1) |-> total[i - 1]])

\* a * d for a digit d
RECURSIVE IntTimesDigit(_, _)
IntTimesDigit(a, d) ==
    IF d = 0 THEN <<>>
    ELSE IF d = 1 THEN a
    ELSE IF d % 2 = 0 THEN IntAdd(IntTimesDigit(a, d \div 2), IntTimesDigit(a, d \div 2))
    ELSE IntAdd(IntTimesDigit(a, d - 1), a)

\* a * b, digit by digit of b
RECURSIVE IntTimes(_, _)
IntTimes(a, b) ==
    IF Len(a) = 0 \/ Len(b) = 0 THEN <<>>
    ELSE IF Len(b) = 1 THEN IntTimesDigit(a, b[1])
    ELSE IntAdd(BigShl(IntTimes(a, SubSeq(b, 1, Len(b) \div 2)), Len(b) - (Len(b) \div 2)),
                IntTimes(a, SubSeq(b, (Len(b) \div 2) + 1, Len(b))))

\* a * b
IntMul(a, b) == IF Len(a) < Len(b) THEN IntTimes(b, a) ELSE IntTimes(a, b)

\* a - b for a >= b of n digits each: digit i lends to the nearest digit
\* after it where a holds less than b, when the digits between are equal
SubDigits(a, b, n) ==
    [i \in 1..n |->
        LET borrow ==
                /\ \E j \in (i + 1)..n : a[j] # b[j]
                /\ LET first == CHOOSE j \in (i + 1)..n :
                                    /\ a[j] # b[j]
                                    /\ \A k \in (i + 1)..(j - 1) : a[k] = b[k]
                   IN a[first] < b[first]
        IN (a[i] + b[i] + (IF borrow THEN 1 ELSE 0)) % 2]

\* a - b for a >= b
BigSub(a, b) == BigNorm(SubDigits(a, BigPad(b, Len(a)), Len(a)))

\* long division of num by den # 0 over the digits i to j of num, r being
\* the remainder the digits before i have left: the digits of the
\* quotient and the remainder
RECURSIVE DivRange(_, _, _, _, _)
DivRange(num, den, i, j, r) ==
    IF i > j THEN [q |-> <<>>, r |-> r]
    ELSE IF i = j
         THEN LET r2 == BigNorm(Append(r, num[i]))
              IN IF BigLess(r2, den) THEN [q |-> <<0>>, r |-> r2]
                 ELSE [q |-> <<1>>, r |-> BigSub(r2, den)]
         ELSE LET mid == (i + j) \div 2
                  left == DivRange(num, den, i, mid, r)
                  right == DivRange(num, den, mid + 1, j, left.r)
              IN [q |-> left.q \o right.q, r |-> right.r]

BigDivMod(num, den) ==
    LET whole == DivRange(num, den, 1, Len(num), <<>>)
    IN [q |-> BigNorm(whole.q), r |-> whole.r]

\* a * 10^k
RECURSIVE BigTimesPow10(_, _)
BigTimesPow10(a, k) ==
    IF Len(a) = 0 \/ k = 0 THEN a
    ELSE IF k = 1 THEN BigAdd(BigShl(a, 3), BigShl(a, 1))
    ELSE BigTimesPow10(BigTimesPow10(a, k \div 2), k - (k \div 2))

\* the number a sequence of digit values 0..9 writes in base ten
RECURSIVE BigOfDecimal(_)
BigOfDecimal(ds) ==
    IF Len(ds) = 0 THEN <<>>
    ELSE IF Len(ds) = 1 THEN BigOfInt(ds[1])
    ELSE LET mid == Len(ds) \div 2
         IN BigAdd(BigTimesPow10(BigOfDecimal(SubSeq(ds, 1, mid)), Len(ds) - mid),
                   BigOfDecimal(SubSeq(ds, mid + 1, Len(ds))))

(***************************************************************************)
(* IEEE 754 binary64.                                                      *)
(***************************************************************************)
FractionBits == 52
ExponentBias == 1023
MaxExponent == 2047

Double(sign, exponent, fraction) ==
    [sign |-> sign, exponent |-> exponent, fraction |-> fraction]

Zero(sign) == Double(sign, 0, [i \in 1..FractionBits |-> 0])
Infinity(sign) == Double(sign, MaxExponent, [i \in 1..FractionBits |-> 0])
NaN(sign) == Double(sign, MaxExponent, [i \in 1..FractionBits |-> IF i = 1 THEN 1 ELSE 0])
Inf == Infinity(0)

ValueError == [err |-> "ValueError"]
IsError(x) == DOMAIN x = {"err"}

IsNaN(x) == x.exponent = MaxExponent /\ \E i \in 1..FractionBits : x.fraction[i] = 1
IsInf(x) == x.exponent = MaxExponent /\ ~IsNaN(x)
IsZero(x) == x.exponent = 0 /\ \A i \in 1..FractionBits : x.fraction[i] = 0

\* a finite double is Significand * 2^LowExponent
Significand(x) == BigNorm(<<IF x.exponent = 0 THEN 0 ELSE 1>> \o x.fraction)
LowExponent(x) ==
    (IF x.exponent = 0 THEN 1 ELSE x.exponent) - ExponentBias - FractionBits

\* the largest k with 2^k <= N / D, for naturals N # 0 and D # 0
Log2Quotient(N, D) ==
    IF Len(N) >= Len(D)
    THEN Len(N) - Len(D) - (IF BigLess(N, BigShl(D, Len(N) - Len(D))) THEN 1 ELSE 0)
    ELSE Len(N) - Len(D) - (IF BigLess(BigShl(N, Len(D) - Len(N)), D) THEN 1 ELSE 0)

\* the exponent of the last place of the doubles from 2^top up to 2^(top + 1)
LastPlace(top) ==
    (IF top > 1 - ExponentBias THEN top ELSE 1 - ExponentBias) - FractionBits

\* the quotient q of a division by divisor that left the remainder r,
\* rounded to the nearest integer, a tie to the even one
RoundHalfEven(q, r, divisor) ==
    IF \/ BigLess(divisor, BigShl(r, 1))
       \/ BigShl(r, 1) = divisor /\ Len(q) > 0 /\ q[Len(q)] = 1
    THEN BigAdd(q, <<1>>)
    ELSE q

RoundedQuotient(qr, divisor) == RoundHalfEven(qr.q, qr.r, divisor)

\* the integer nearest to (N / D) * 2^shift
Nearest(N, D, shift) ==
    IF shift >= 0
    THEN RoundedQuotient(BigDivMod(BigShl(N, shift), D), D)
    ELSE RoundedQuotient(BigDivMod(N, BigShl(D, 0 - shift)), BigShl(D, 0 - shift))

\* the double significand * 2^lowest, significand having FractionBits + 1
\* digits, the first of them 0 for a subnormal
Pack(sign, significand, lowest) ==
    IF lowest + FractionBits > MaxExponent - 1 - ExponentBias THEN Infinity(sign)
    ELSE Double(sign,
                IF significand[1] = 1 THEN lowest + FractionBits + ExponentBias ELSE 0,
                SubSeq(significand, 2, FractionBits + 1))

\* the double rounded * 2^low; rounding up may have made the significand
\* one digit longer, and then its last digit is 0
Normalised(sign, rounded, low) ==
    IF Len(rounded) = FractionBits + 2
    THEN Pack(sign, SubSeq(rounded, 1, FractionBits + 1), low + 1)
    ELSE Pack(sign, BigPad(rounded, FractionBits + 1), low)

\* the double nearest to (N / D) * 2^sh, which lies from 2^top up to
\* 2^(top + 1)
RoundAt(sign, N, D, sh, top) ==
    IF top > MaxExponent - 1 - ExponentBias THEN Infinity(sign)
    ELSE Normalised(sign, Nearest(N, D, sh - LastPlace(top)), LastPlace(top))

\* the double nearest to (N / D) * 2^sh, ties to the even significand,
\* for naturals N and D # 0: what a correctly rounded conversion or
\* division returns
RoundToDouble(sign, N, D, sh) ==
    IF Len(N) = 0 THEN Zero(sign)
    ELSE RoundAt(sign, N, D, sh, Log2Quotient(N, D) + sh)

\* a < b and a == b on floats
\* the exponent and then the fraction of floats of one sign order them
SeqLess(a, b) == \E i \in 1..Len(a) : a[i] < b[i] /\ \A j \in 1..(i - 1) : a[j] = b[j]

FloatLess(a, b) ==
    IF IsNaN(a) \/ IsNaN(b) THEN FALSE
    ELSE IF IsZero(a) /\ IsZero(b) THEN FALSE
    ELSE IF a.sign # b.sign THEN a.sign = 1
    ELSE IF a.sign = 0 THEN SeqLess(<<a.exponent>> \o a.fraction, <<b.exponent>> \o b.fraction)
    ELSE SeqLess(<<b.exponent>> \o b.fraction, <<a.exponent>> \o a.fraction)

FloatEq(a, b) ==
    IF IsNaN(a) \/ IsNaN(b) THEN FALSE
    ELSE IF IsZero(a) /\ IsZero(b) THEN TRUE
    ELSE a = b

(***************************************************************************)
(* float(s) of a str: decimal digits of any script and whitespace become   *)
(* their ASCII counterparts, ASCII whitespace is stripped from both ends,  *)
(* an underscore may stand between two digits, and what is left is an      *)
(* optional sign followed by inf, infinity or nan in any case, or by a     *)
(* decimal number with an optional exponent.                               *)
(***************************************************************************)
AsciiWhitespace == {"U+0009", "U+000A", "U+000B", "U+000C", "U+000D", " "}

\* the control characters U+001C to U+001F are whitespace to str.strip()
\* and are left as they are by float()
to_ascii(s) ==
    [i \in 1..Len(s) |->
        IF s[i] \in Digits THEN DigitChars[DigitVal(s[i]) + 1]
        ELSE IF s[i] \in Whitespace \ {"U+001C", "U+001D", "U+001E", "U+001F"} THEN " "
        ELSE s[i]]

RECURSIVE strip_ascii(_)
strip_ascii(s) ==
    IF Len(s) = 0 THEN s
    ELSE IF s[1] \in AsciiWhitespace THEN strip_ascii(Tail(s))
    ELSE IF s[Len(s)] \in AsciiWhitespace THEN strip_ascii(SubSeq(s, 1, Len(s) - 1))
    ELSE s

AsciiDigits == {DigitChars[k] : k \in 1..10}

underscores_ok(s) ==
    \A i \in 1..Len(s) :
        s[i] = "_" => /\ i > 1 /\ s[i - 1] \in AsciiDigits
                      /\ i < Len(s) /\ s[i + 1] \in AsciiDigits

\* s is the word w in some mix of cases; w gives both cases of each letter
IsWord(s, w) == Len(s) = Len(w) /\ \A i \in 1..Len(s) : s[i] \in w[i]

WordInf == <<{"i", "I"}, {"n", "N"}, {"f", "F"}>>
WordNan == <<{"n", "N"}, {"a", "A"}, {"n", "N"}>>

unsigned(s) == IF Len(s) > 0 /\ s[1] \in {"+", "-"} THEN Tail(s) ELSE s
sign_of(s) == IF Len(s) > 0 /\ s[1] = "-" THEN 1 ELSE 0

\* the part before and the part after the first e or E; None when there
\* is no exponent
ExponentAt(s) ==
    IF \E i \in 1..Len(s) : s[i] \in {"e", "E"}
    THEN CHOOSE i \in 1..Len(s) : s[i] \in {"e", "E"} /\ \A j \in 1..(i - 1) : s[j] \notin {"e", "E"}
    ELSE 0

mantissa_text(s) == IF ExponentAt(s) = 0 THEN s ELSE SubSeq(s, 1, ExponentAt(s) - 1)
exponent_text(s) == IF ExponentAt(s) = 0 THEN None ELSE Some(SubSeq(s, ExponentAt(s) + 1, Len(s)))

mantissa_ok(m) ==
    /\ \A i \in 1..Len(m) : m[i] \in AsciiDigits \cup {"."}
    /\ Cardinality({i \in 1..Len(m) : m[i] = "."}) <= 1
    /\ \E i \in 1..Len(m) : m[i] \in AsciiDigits

exponent_ok(e) ==
    e = None \/ (/\ Len(unsigned(e[1])) > 0
                 /\ \A i \in 1..Len(unsigned(e[1])) : unsigned(e[1])[i] \in AsciiDigits)

RECURSIVE drop_zeros(_)
drop_zeros(s) == IF Len(s) > 0 /\ s[1] = "0" THEN drop_zeros(Tail(s)) ELSE s

\* the decimal exponent; beyond eight digits it is as good as 10^8
HugeExponent == 100000000

exponent_size(written) == IF Len(written) > 8 THEN HugeExponent ELSE NatOf(ToInt(written))

exponent_value(e) ==
    IF e = None THEN 0
    ELSE IF sign_of(e[1]) = 1 THEN 0 - exponent_size(drop_zeros(unsigned(e[1])))
    ELSE exponent_size(drop_zeros(unsigned(e[1])))

\* the double of the decimal number whose digits are ds (no leading 0)
\* times 10^e10
decimal_to_double(sign, ds, e10) ==
    IF Len(ds) = 0 THEN Zero(sign)
    ELSE IF Len(ds) + e10 > 309 THEN Infinity(sign)
    ELSE IF Len(ds) + e10 < -323 THEN Zero(sign)
    ELSE RoundToDouble(sign,
                       BigTimesPow10(BigOfDecimal(ds), IF e10 > 0 THEN e10 ELSE 0),
                       BigTimesPow10(<<1>>, IF e10 < 0 THEN 0 - e10 ELSE 0),
                       0)

\* the digits after the period of a mantissa
places(mantissa) ==
    IF Contains(mantissa, ".") THEN Len(mantissa) - IndexOf(mantissa, ".") ELSE 0

\* a decimal number: mantissa and, or None, exponent
float_number(sign, mantissa, exponent) ==
    IF ~mantissa_ok(mantissa) \/ ~exponent_ok(exponent) THEN ValueError
    ELSE decimal_to_double(sign, digit_values(drop_zeros(remove(mantissa, "."))),
                           exponent_value(exponent) - places(mantissa))

\* what follows the sign
float_body(sign, body) ==
    IF \/ IsWord(body, WordInf)
       \/ IsWord(body, WordInf \o <<{"i", "I"}, {"n", "N"}, {"i", "I"}, {"t", "T"}, {"y", "Y"}>>)
    THEN Infinity(sign)
    ELSE IF IsWord(body, WordNan) THEN NaN(sign)
    ELSE float_number(sign, mantissa_text(body), exponent_text(body))

\* the text in ASCII, stripped
float_ascii(ascii) ==
    IF ~underscores_ok(ascii) THEN ValueError
    ELSE float_body(sign_of(ascii), unsigned(remove(ascii, "_")))

float(s) == float_ascii(strip_ascii(to_ascii(s)))


(***************************************************************************)
(* float / int: the int becomes the nearest float, a tie going to the even *)
(* significand, and OverflowError is raised when that is no finite float;  *)
(* then the floats are divided.                                            *)
(***************************************************************************)
OverflowError == [err |-> "OverflowError"]

\* float(n) of an int n; an int of more than 309 digits is 10^309 or more
float_of_int(n) ==
    IF Len(n) > 309 THEN OverflowError
    ELSE LET d == RoundToDouble(0, BigOfDecimal(n), <<1>>, 0)
         IN IF IsInf(d) THEN OverflowError ELSE d

\* a natural a # 0 is OddPart(a) * 2^TrailingZeros(a)
TrailingZeros(a) == Len(a) - (CHOOSE i \in 1..Len(a) : a[i] = 1 /\ \A j \in (i + 1)..Len(a) : a[j] = 0)
OddPart(a) == SubSeq(a, 1, Len(a) - TrailingZeros(a))

\* x / d for floats x and d, d finite and not below 0, or the error
\* that float(n) has raised
float_div(x, d) ==
    IF IsError(d) THEN d
    ELSE IF IsZero(d) THEN [err |-> "ZeroDivisionError"]
    ELSE IF IsNaN(x) \/ IsInf(x) THEN x
    ELSE RoundToDouble(x.sign, Significand(x), OddPart(Significand(d)),
                       LowExponent(x) - LowExponent(d) - TrailingZeros(Significand(d)))

\* x / n for a float x and an int n
truediv(x, n) == float_div(x, float_of_int(n))

(***************************************************************************)
(* FilterParams.apply                                                      *)
(***************************************************************************)
apply_exclusive(params, p) ==
    IF params.level_min # None /\ p.credit_rating <= params.level_min[1] THEN FALSE
    ELSE IF params.stock_min # None /\ p.stock <= params.stock_min[1] THEN FALSE
    ELSE TRUE

apply(params, p) ==
    IF params.level_min # None /\ p.credit_rating < params.level_min[1] THEN FALSE
    ELSE IF params.stock_min # None /\ p.stock < params.stock_min[1] THEN FALSE
    ELSE TRUE

(***************************************************************************)
(* FilterParams.apply on its own: the inputs are drawn from 0..MaxStock    *)
(* and 0..MaxLevel, a threshold may also be None.                          *)
(***************************************************************************)
MaxStock == 3
MaxLevel == 3

Opt(S) == {None} \cup {Some(v) : v \in S}

FilterIdle ==
    /\ f_params = [stock_min |-> Some(0), level_min |-> Some(0)]
    /\ f_product = [stock |-> 0, credit_rating |-> 0]
    /\ f_result = FALSE
    /\ f_pc = "idle"

FilterInit ==
    /\ f_params \in [stock_min : Opt(0..MaxStock), level_min : Opt(0..MaxLevel)]
    /\ f_product \in [stock : 0..MaxStock, credit_rating : 0..MaxLevel]
    /\ f_result = FALSE
    /\ f_pc = "call"

ApplyCall ==
    /\ f_pc = "call"
    /\ f_result' = apply(f_params, f_product)
    /\ f_pc' = "done"
    /\ UNCHANGED <<f_params, f_product, e_vars, r_vars, p_vars>>

(***************************************************************************)
(* DD373Product.from_html_element.  The fragment is not parsed here: what  *)
(* each select_one / select / re.search of a section returns is that       *)
(* section's input.  item records which of the two containers that more    *)
(* than one section looks into the fragment has: .game-reputation          *)
(* (sections 4 and 6) and .kucun (sections 4 and 5).  sel holds the        *)
(* selector results of the section that ran last.  Sections 1 (url and     *)
(* product_id), 2 (server_info) and 7 (purchase_url) set fields that no    *)
(* other section and no caller in src/ reads; of section 1 the title is    *)
(* modelled.  epc is the section about to run, "done" once the record is   *)
(* returned and "raised" once the ValueError of an int() or the            *)
(* OverflowError of the division has left the function.  The stock and the *)
(* quantity are ints read from text, of any size.                          *)
(***************************************************************************)
MaxQuantity == 3
MaxParagraphs == 3
MaxIcons == 6

\* the numbers of diamond and of crown icons tried
FewIcons == {0, 2, MaxIcons}

\* str(n)
RECURSIVE IntToText(_)
IntToText(n) ==
    IF n < 10 THEN <<DigitChars[n + 1]>>
    ELSE IntToText(n \div 10) \o <<DigitChars[(n % 10) + 1]>>

\* the text of 10^k
PowerOfTenText(k) == <<"1">> \o [i \in 1..k |-> "0"]

\* Title texts: "<N>U+4E2A=5" for N in 0..MaxQuantity, a two-digit
\* quantity with whitespace around the text, a full-width quantity, a
\* title with no digit before the "=", a title whose only digits follow
\* the "=", a title of whitespace, the quantity 2^53 + 1, which is no
\* float, the quantity 10^309, which is above every float, and a quantity
\* of one digit more than int() converts.
TitleTexts ==
    {IntToText(n) \o <<"U+4E2A", "=", "5">> : n \in 0..MaxQuantity}
        \cup {<<"U+000A", "x", "1", "2", "U+4E2A", "4", "=", "9", "U+3000">>,
              <<"U+FF13", "U+4E2A", "=", "5">>,
              <<"U+4E2A", "=", "3">>,
              <<"a", "b", "7">>,
              <<" ", "U+0009">>,
              <<"9", "0", "0", "7", "1", "9", "9", "2", "5", "4", "7", "4", "0", "9",
                "9", "3", "U+4E2A", "=", "5">>,
              PowerOfTenText(309) \o <<"U+4E2A", "=", "5">>,
              PowerOfTenText(IntMaxStrDigits) \o <<"U+4E2A", "=", "5">>}

\* Price texts: 6 in full-width digits after the yen sign, 0.3, 1.5, and a
\* text float() rejects
PriceTexts ==
    {<<"U+FFE5", "U+FF16">>, <<"0", ".", "3">>, <<"1", ".", "5">>,
     <<"1", ".", "2", ".", "3">>}

\* what the labeled pattern captures, and the texts of the bolded and of
\* the legacy element: numbers, a number between line feeds or after a
\* tab, a superscript two, a text that is no number
MatchTexts == {<<"0">>, <<"U+0663">>}
BoldTexts == {<<"0">>, <<"U+000A", "2", "U+000A">>, <<"U+00B2">>, <<"x">>}
LegacyTexts == {<<"0">>, <<"U+0009", "7">>, <<"U+00B2">>, <<"x">>}

\* The k-th paragraph of the rate container and of the legacy container
PrimaryP(k) ==
    <<"U+000A", " ", "1", "U+94BB", "=", "0", ".", DigitChars[k + 1], "U+5143", " ", "U+000A">>
LegacyP(k) == <<"1", "U+94BB", "=", DigitChars[k + 1], "U+5143">>

DefaultProduct ==
    [title |-> <<>>, price |-> Zero(0), stock |-> IntOf(0),
     exchange_rate_1 |-> <<>>, exchange_rate_2 |-> <<>>, credit_rating |-> 0]

\* section 1: the title
title_of(title_elem) ==
    IF title_elem # None THEN strip(title_elem[1]) ELSE DefaultProduct.title

\* section 3: the price
price_of(price_elem) ==
    IF price_elem # None
    THEN LET v == float(keep_digits_and_periods(price_elem[1]))
         IN IF IsError(v) THEN Zero(0) ELSE v
    ELSE DefaultProduct.price

\* section 4, lines 78 to 89: the stock after the reputation container was
\* searched, or the ValueError of int()
stock_primary(reputation_div, stock_match, bold_span) ==
    IF reputation_div
    THEN IF stock_match # None
         THEN IF int_raises(stock_match[1])
              THEN [raised |-> TRUE, stock |-> DefaultProduct.stock]
              ELSE [raised |-> FALSE, stock |-> ToInt(stock_match[1])]
         ELSE IF bold_span # None /\ isdigit(strip(bold_span[1]))
              THEN IF int_raises(strip(bold_span[1]))
                   THEN [raised |-> TRUE, stock |-> DefaultProduct.stock]
                   ELSE [raised |-> FALSE, stock |-> ToInt(strip(bold_span[1]))]
              ELSE [raised |-> FALSE, stock |-> DefaultProduct.stock]
    ELSE [raised |-> FALSE, stock |-> DefaultProduct.stock]

\* section 4: the stock, or the ValueError of int()
stock_of(reputation_div, stock_match, bold_span, stock_elem_old) ==
    LET s1 == stock_primary(reputation_div, stock_match, bold_span)
    IN IF ~s1.raised /\ s1.stock = IntOf(0)
       THEN IF stock_elem_old # None /\ isdigit(strip(stock_elem_old[1]))
            THEN IF int_raises(strip(stock_elem_old[1]))
                 THEN [raised |-> TRUE, stock |-> s1.stock]
                 ELSE [raised |-> FALSE, stock |-> ToInt(strip(stock_elem_old[1]))]
            ELSE s1
       ELSE s1

\* section 5: the exchange rates, <<exchange_rate_1, exchange_rate_2>>
rates_of(kucun_div, ps, old_rate_div) ==
    IF kucun_div
    THEN IF Len(ps) >= 2 THEN <<strip(ps[1]), strip(ps[2])>>
         ELSE IF Len(ps) = 0
              THEN IF old_rate_div # None
                   THEN IF Len(old_rate_div[1]) >= 2
                        THEN <<strip(old_rate_div[1][1]), strip(old_rate_div[1][2])>>
                        ELSE <<DefaultProduct.exchange_rate_1, DefaultProduct.exchange_rate_2>>
                   ELSE <<DefaultProduct.exchange_rate_1, DefaultProduct.exchange_rate_2>>
              ELSE <<DefaultProduct.exchange_rate_1, DefaultProduct.exchange_rate_2>>
    ELSE <<DefaultProduct.exchange_rate_1, DefaultProduct.exchange_rate_2>>

\* section 6: the credit rating
credit_of(reputation, hearts, diamonds, crowns) ==
    IF reputation
    THEN IF hearts > 0 THEN hearts
         ELSE IF diamonds > 0 THEN 5 + diamonds
         ELSE IF crowns > 0 THEN 10 + crowns
         ELSE DefaultProduct.credit_rating
    ELSE DefaultProduct.credit_rating

\* section 8: the bundle quantity of a title, the stock and the unit price
quantity_match(title) ==
    IF Len(title) > 0 /\ Contains(title, "=")
    THEN search_digits(split(title, "=")[1])
    ELSE None

\* the quantity, given what re.search has returned; the ValueError of
\* int() is caught and leaves it 1
quantity_of(match) ==
    IF match # None
    THEN IF int_raises(match[1]) THEN IntOf(1) ELSE ToInt(match[1])
    ELSE IntOf(1)

stock_final_unscaled(match, stock) == stock

\* the stock, multiplied when int() has read the quantity
stock_final(match, stock) ==
    IF match # None /\ ~int_raises(match[1]) THEN IntMul(quantity_of(match), stock) ELSE stock

\* the unit price, or the OverflowError of the division
price_final(quantity, price) ==
    IF quantity # IntOf(0) THEN truediv(price, quantity) ELSE price

ExtractIdle ==
    /\ item = [reputation |-> FALSE, kucun |-> FALSE]
    /\ sel = [section |-> "none"]
    /\ product = DefaultProduct
    /\ epc = "idle"

ExtractInit ==
    /\ item \in [reputation : BOOLEAN, kucun : BOOLEAN]
    /\ sel = [section |-> "none"]
    /\ product = DefaultProduct
    /\ epc = "title"

SectionTitle ==
    /\ epc = "title"
    /\ \E title_elem \in Opt(TitleTexts) :
        /\ product' = [product EXCEPT !.title = title_of(title_elem)]
        /\ sel' = [section |-> "title", title_elem |-> title_elem]
    /\ epc' = "price"
    /\ UNCHANGED <<item, f_vars, r_vars, p_vars>>

SectionPrice ==
    /\ epc = "price"
    /\ \E price_elem \in Opt(PriceTexts) :
        /\ product' = [product EXCEPT !.price = price_of(price_elem)]
        /\ sel' = [section |-> "price", price_elem |-> price_elem]
    /\ epc' = "stock"
    /\ UNCHANGED <<item, f_vars, r_vars, p_vars>>

SectionStock ==
    /\ epc = "stock"
    /\ \E stock_match \in IF item.reputation THEN Opt(MatchTexts) ELSE {None},
          bold_span \in IF item.reputation THEN Opt(BoldTexts) ELSE {None},
          stock_elem_old \in IF item.kucun THEN Opt(LegacyTexts) ELSE {None} :
        LET s == stock_of(item.reputation, stock_match, bold_span, stock_elem_old)
        IN /\ product' = [product EXCEPT !.stock = s.stock]
           /\ sel' = [section |-> "stock", stock_match |-> stock_match,
                      bold_span |-> bold_span, stock_elem_old |-> stock_elem_old]
           /\ epc' = IF s.raised THEN "raised" ELSE "rates"
    /\ UNCHANGED <<item, f_vars, r_vars, p_vars>>

SectionRates ==
    /\ epc = "rates"
    /\ \E ps \in IF item.kucun THEN {[k \in 1..n |-> PrimaryP(k)] : n \in 0..MaxParagraphs} ELSE {<<>>},
          old_rate_div \in Opt({[k \in 1..n |-> LegacyP(k)] : n \in 0..MaxParagraphs}) :
        /\ product' = [product EXCEPT
                !.exchange_rate_1 = rates_of(item.kucun, ps, old_rate_div)[1],
                !.exchange_rate_2 = rates_of(item.kucun, ps, old_rate_div)[2]]
        /\ sel' = [section |-> "rates", ps |-> ps, old_rate_div |-> old_rate_div]
    /\ epc' = "credit"
    /\ UNCHANGED <<item, f_vars, r_vars, p_vars>>

SectionCredit ==
    /\ epc = "credit"
    /\ \E hearts \in IF item.reputation THEN 0..MaxIcons ELSE {0},
          diamonds \in IF item.reputation THEN FewIcons ELSE {0},
          crowns \in IF item.reputation THEN FewIcons ELSE {0} :
        /\ product' = [product EXCEPT
                !.credit_rating = credit_of(item.reputation, hearts, diamonds, crowns)]
        /\ sel' = [section |-> "credit", hearts |-> hearts,
                   diamonds |-> diamonds, crowns |-> crowns]
    /\ epc' = "quantity"
    /\ UNCHANGED <<item, f_vars, r_vars, p_vars>>

SectionQuantity ==
    /\ epc = "quantity"
    /\ \E match \in {quantity_match(product.title)} :
        \E price \in {price_final(quantity_of(match), product.price)} :
            /\ product' = [product EXCEPT
                    !.stock = stock_final(match, product.stock),
                    !.price = IF IsError(price) THEN product.price ELSE price]
            /\ sel' = [section |-> "quantity", quantity |-> quantity_of(match),
                       raw_stock |-> product.stock, raw_price |-> product.price]
            /\ epc' = IF IsError(price) THEN "raised" ELSE "done"
    /\ UNCHANGED <<item, f_vars, r_vars, p_vars>>

(***************************************************************************)
(* _filter_valid_offer_item and get_dd_min_price.  Objects live in heap, a *)
(* sequence of records indexed by object identity; a list is a sequence of *)
(* identities.  listOffers is the list _filter_valid_offer_item is called  *)
(* with, snapshot its value and its objects' values before the call.       *)
(***************************************************************************)
MaxOffers == 3

shallow_copy(h, l) == [heap |-> h, ids |-> l]

\* the position at which l first holds the object it holds at k
FirstAt(l, k) == CHOOSE j \in 1..k : l[j] = l[k] /\ \A i \in 1..(j - 1) : l[i] # l[k]

\* the positions of l that hold their object for the first time, ascending
Firsts(l) == SelectSeq([k \in 1..Len(l) |-> k], LAMBDA k : FirstAt(l, k) = k)

\* copy.deepcopy(listOffers): one new object per object of the list,
\* appended to the heap in the order the list first reaches them, and the
\* list of the new identities; an object the list holds twice is copied
\* once (the memo of deepcopy)
deepcopy(h, l) ==
    [heap |-> h \o [n \in 1..Len(Firsts(l)) |-> h[l[Firsts(l)[n]]]],
     ids |-> [k \in 1..Len(l) |->
                Len(h) + (CHOOSE n \in 1..Len(Firsts(l)) : Firsts(l)[n] = FirstAt(l, k))]]

\* the text the key lambda of sorted() hands to float()
key_text(x) ==
    IF Contains(x.exchange_rate_2, "=") /\ Len(split(x.exchange_rate_2, "=")) > 1
    THEN strip(remove(split(x.exchange_rate_2, "=")[2], "U+5143"))
    ELSE <<"i", "n", "f">>

\* the key lambda of sorted(): a float, or the ValueError of float()
sort_key(x) == float(key_text(x))

\* list.sort of CPython on a list shorter than 64: the run the list starts
\* with is found (and reversed when strictly descending), then each later
\* element is put in place by binary insertion.  keys[i] is the key of
\* a[i]'s element, a is a sequence of positions of keys.
RECURSIVE run_end(_, _, _, _)
run_end(keys, a, descending, i) ==
    IF i = Len(a) THEN i
    ELSE IF descending = FloatLess(keys[a[i + 1]], keys[a[i]])
         THEN run_end(keys, a, descending, i + 1)
         ELSE i

count_run(keys, a) ==
    LET descending == FloatLess(keys[a[2]], keys[a[1]])
        n == run_end(keys, a, descending, 2)
    IN [n |-> n,
        a |-> IF descending
              THEN [k \in 1..Len(a) |-> IF k <= n THEN a[n + 1 - k] ELSE a[k]]
              ELSE a]

\* the number of elements of a[1..r] the pivot goes after, searched
\* between l and r
RECURSIVE bisect(_, _, _, _, _)
bisect(keys, a, pivot, l, r) ==
    IF l >= r THEN l
    ELSE LET p == l + ((r - l) \div 2)
         IN IF FloatLess(keys[pivot], keys[a[p + 1]])
            THEN bisect(keys, a, pivot, l, p)
            ELSE bisect(keys, a, pivot, p + 1, r)

RECURSIVE binarysort(_, _, _)
binarysort(keys, a, start) ==
    IF start > Len(a) THEN a
    ELSE LET l == bisect(keys, a, a[start], 0, start - 1)
         IN binarysort(keys,
                       SubSeq(a, 1, l) \o <<a[start]>> \o SubSeq(a, l + 1, start - 1)
                           \o SubSeq(a, start + 1, Len(a)),
                       start + 1)

\* sorted(ids, key) given the keys: the positions of ids in sorted order
sorted(keys) ==
    LET a == [k \in 1..Len(keys) |-> k]
    IN IF Len(keys) < 2 THEN a
       ELSE binarysort(keys, count_run(keys, a).a, count_run(keys, a).n + 1)

\* the loop over sorted_offers that keeps the offers the filter accepts
RECURSIVE keep_valid(_, _, _)
keep_valid(h, ids, params) ==
    IF Len(ids) = 0 THEN <<>>
    ELSE (IF apply(params, h[ids[1]]) THEN <<ids[1]>> ELSE <<>>)
             \o keep_valid(h, Tail(ids), params)

\* the keys of the copies, in the order of the list
keys_of(c) == [k \in 1..Len(c.ids) |-> sort_key(c.heap[c.ids[k]])]

\* ids in the order the sort gave to their positions
reordered(ids, order) == [k \in 1..Len(order) |-> ids[order[k]]]

\* lines 208-223 on the copy c: the exception a key raised, or the copies
\* the filter accepts in sorted order
sort_and_filter(c, keys, params) ==
    IF \E k \in 1..Len(keys) : IsError(keys[k])
    THEN [heap |-> c.heap, raised |-> TRUE, valid_offers |-> <<>>]
    ELSE [heap |-> c.heap, raised |-> FALSE,
          valid_offers |-> keep_valid(c.heap, reordered(c.ids, sorted(keys)), params)]

filter_copy(c, params) == sort_and_filter(c, keys_of(c), params)

\* _filter_valid_offer_item: the heap after the call and either the list
\* returned or the exception raised by a key
filter_valid_offer_item(h, l, params) == filter_copy(deepcopy(h, l), params)

\* min(filter_list, key=price): the first element no other is cheaper than
RECURSIVE min_by_price(_, _)
min_by_price(h, ids) ==
    IF Len(ids) = 1 THEN ids[1]
    ELSE LET m == min_by_price(h, SubSeq(ids, 1, Len(ids) - 1))
         IN IF FloatLess(h[ids[Len(ids)]].price, h[m].price) THEN ids[Len(ids)] ELSE m

\* get_dd_min_price from line 242 on: None, the tuple, or the exception
min_price_of(h, min_offer) ==
    [kind |-> "tuple", price |-> h[min_offer].price, title |-> h[min_offer].title,
     stock |-> h[min_offer].stock]

dd_min_price_of(filtered) ==
    IF filtered.raised THEN [kind |-> "ValueError"]
    ELSE IF Len(filtered.valid_offers) = 0 THEN [kind |-> "None"]
    ELSE min_price_of(filtered.heap, min_by_price(filtered.heap, filtered.valid_offers))

\* Sell-rate texts: none, two rates, a rate in exponent form, and texts
\* whose part after the "=" is no decimal number
RateTexts ==
    {<<>>,
     <<"1", "U+94BB", "=", "0", ".", "0", "5", "U+5143">>,
     <<"1", "U+94BB", "=", "0", ".", "1", "U+5143", " ", "U+000A">>,
     <<"1", "U+94BB", "=", "a", "b", "c">>,
     <<"1", "U+94BB", "=", "n", "a", "n">>,
     <<"1", "U+94BB", "=">>}

\* 0.1, and 0.3 / 3, which is the double below 0.1
OfferPrices == {float(<<"0", ".", "1">>), truediv(float(<<"0", ".", "3">>), IntOf(3))}

\* price, stock and credit rating of an offer: two that pass the
\* thresholds 1 and 1, and a cheaper one that does not
OfferProfiles ==
    {[price |-> p, stock |-> 5, credit_rating |-> 3] : p \in OfferPrices}
        \cup {[price |-> truediv(float(<<"0", ".", "3">>), IntOf(3)), stock |-> 0,
               credit_rating |-> 10]}

Criteria ==
    {[stock_min |-> Some(1), level_min |-> Some(1)],
     [stock_min |-> Some(0), level_min |-> Some(0)]}

Offer(i, profile, rate) ==
    [title |-> <<"t", DigitChars[i + 1]>>, price |-> profile.price, stock |-> profile.stock,
     credit_rating |-> profile.credit_rating, exchange_rate_2 |-> rate]

RankIdle ==
    /\ heap = <<>>
    /\ listOffers = <<>>
    /\ snapshot = [list |-> <<>>, objs |-> <<>>]
    /\ filterParams = [stock_min |-> Some(0), level_min |-> Some(0)]
    /\ valid_offers = <<>>
    /\ dd_min_price = [kind |-> "None"]
    /\ rpc = "idle"

\* the lists of n distinct objects and, of the lists that hold an object
\* twice, those that end in their first object again
RankInit ==
    /\ \E n \in 0..MaxOffers :
        \E f \in [1..n -> OfferProfiles \X RateTexts] :
            /\ heap = [i \in 1..n |-> Offer(i, f[i][1], f[i][2])]
            /\ listOffers \in {[i \in 1..n |-> i]}
                    \cup (IF n >= 1 /\ n < MaxOffers THEN {[i \in 1..n |-> i] \o <<1>>} ELSE {})
    /\ snapshot = [list |-> listOffers, objs |-> heap]
    /\ filterParams \in Criteria
    /\ valid_offers = <<>>
    /\ dd_min_price = [kind |-> "None"]
    /\ rpc = "call"

GetDdMinPrice ==
    /\ rpc = "call"
    /\ \E filtered \in {filter_valid_offer_item(heap, listOffers, filterParams)} :
          /\ heap' = filtered.heap
          /\ valid_offers' = filtered.valid_offers
          /\ dd_min_price' = dd_min_price_of(filtered)
    /\ rpc' = "done"
    /\ UNCHANGED <<listOffers, snapshot, filterParams, f_vars, e_vars, p_vars>>


(***************************************************************************)
(* process and write_to_log_cell of main.py: one pass over row_indexes.    *)
(* What the sheet and the browser do is input: the rows to run, whether a  *)
(* row loads, what get_dd_min_price returns or raises, and whether an      *)
(* update_cell succeeds.  cells is the sheet (columns E, F, I, J, K of     *)
(* each row, None for a blank cell), cells0 the sheet as the pass found    *)
(* it, writes the calls of write_to_log_cell in order, outcome what        *)
(* happened to each row whose iteration has ended, idx the position of the *)
(* loop, ppc the statement of the loop body about to run, status and       *)
(* min_price the locals of that name.  Each call of write_to_log_cell is   *)
(* a step of its own: it is a request to the sheet, and the sleep of lines *)
(* 83 to 89 lies between the stock and the status write.                   *)
(***************************************************************************)
MaxRows == 2

Now == <<"n", "o", "w">>
ErrorNow == <<"E", "r", "r", "o", "r", ":", " ">> \o Now

\* the column write_to_log_cell picks for a log_type
column_of(log_type) ==
    CASE log_type = "status" -> "E"
      [] log_type = "time" -> "F"
      [] log_type = "price" -> "I"
      [] log_type = "title" -> "J"
      [] log_type = "stock" -> "K"

\* write_to_log_cell: update_cell sets the cell, or raises and the
\* exception is caught and printed
write_to_log_cell(sheet, row_index, log_str, log_type, ok) ==
    IF ok THEN [sheet EXCEPT ![row_index][column_of(log_type)] = Some(log_str)]
    ELSE sheet

Call(row_index, log_str, log_type) ==
    [row |-> row_index, log_str |-> log_str, log_type |-> log_type]

status_always_found(selected) == "FOUND"

\* the status of a row once get_dd_min_price has returned
status_of(selected) ==
    IF selected.kind = "None" THEN "NOT FOUND" ELSE "FOUND"

Selections ==
    {[kind |-> "Exception"], [kind |-> "None"],
     [kind |-> "tuple", price |-> float(<<"0", ".", "1">>), title |-> <<"t", "1">>, stock |-> 5]}

OldRow ==
    [E |-> Some("FOUND"), F |-> Some(<<"o", "l", "d">>), I |-> Some(float(<<"9">>)),
     J |-> Some(<<"t", "9">>), K |-> Some(9)]

\* the ascending sequence of the members of a set of row numbers
RECURSIVE ascending(_)
ascending(S) ==
    IF S = {} THEN <<>>
    ELSE LET m == CHOOSE x \in S : \A y \in S : x <= y
         IN <<m>> \o ascending(S \ {m})

ProcessIdle ==
    /\ row_indexes = <<>>
    /\ cells = <<>>
    /\ cells0 = <<>>
    /\ writes = <<>>
    /\ outcome = <<>>
    /\ idx = 0
    /\ ppc = "idle"
    /\ status = "NOT FOUND"
    /\ min_price = [kind |-> "None"]

ProcessInit ==
    /\ row_indexes \in {ascending(S) : S \in SUBSET (1..MaxRows)}
    /\ cells = [r \in 1..MaxRows |-> OldRow]
    /\ cells0 = cells
    /\ writes = <<>>
    /\ outcome = [r \in 1..MaxRows |-> "not run"]
    /\ idx = 1
    /\ ppc = "row"
    /\ status = "NOT FOUND"
    /\ min_price = [kind |-> "None"]

InLoop == idx >= 1 /\ idx <= Len(row_indexes)

\* a call of write_to_log_cell for the current row
Write(log_str, log_type) ==
    /\ \E ok \in BOOLEAN :
        cells' = write_to_log_cell(cells, row_indexes[idx], log_str, log_type, ok)
    /\ writes' = Append(writes, Call(row_indexes[idx], log_str, log_type))

\* the iteration ends: continue, or the end of the loop body
NextRow(what) ==
    /\ outcome' = [outcome EXCEPT ![row_indexes[idx]] = what]
    /\ idx' = idx + 1
    /\ ppc' = "row"

\* lines 61 to 67: Row.from_row_index raises
RowRaised ==
    /\ InLoop /\ ppc = "row"
    /\ status' = "NOT FOUND"
    /\ ppc' = "error time"
    /\ UNCHANGED <<row_indexes, cells, cells0, writes, outcome, idx, min_price>>
    /\ UNCHANGED <<f_vars, e_vars, r_vars>>

\* lines 68 and 69: the error is logged to the time cell
WriteErrorTime ==
    /\ InLoop /\ ppc = "error time"
    /\ Write(ErrorNow, "time")
    /\ NextRow("raised")
    /\ UNCHANGED <<row_indexes, cells0, status, min_price, f_vars, e_vars, r_vars>>

\* lines 61 to 71: Row.from_row_index returns something that is no Row
RowNotARow ==
    /\ InLoop /\ ppc = "row"
    /\ status' = "NOT FOUND"
    /\ NextRow("not a Row")
    /\ UNCHANGED <<row_indexes, cells, cells0, writes, min_price, f_vars, e_vars, r_vars>>

\* lines 61 to 71: the row loads
RowLoaded ==
    /\ InLoop /\ ppc = "row"
    /\ status' = "NOT FOUND"
    /\ ppc' = "select"
    /\ UNCHANGED <<row_indexes, cells, cells0, writes, outcome, idx, min_price>>
    /\ UNCHANGED <<f_vars, e_vars, r_vars>>

\* lines 73 to 79 and 91 to 93: get_dd_min_price returns or raises
Select ==
    /\ InLoop /\ ppc = "select"
    /\ \E selected \in Selections :
        /\ IF selected.kind = "Exception"
           THEN /\ NextRow("Exception")
                /\ UNCHANGED <<status, min_price>>
           ELSE /\ min_price' = selected
                /\ status' = status_of(selected)
                /\ ppc' = IF selected.kind = "None" THEN "sleep" ELSE "price"
                /\ UNCHANGED <<outcome, idx>>
    /\ UNCHANGED <<row_indexes, cells, cells0, writes, f_vars, e_vars, r_vars>>

\* line 80
WritePrice ==
    /\ InLoop /\ ppc = "price"
    /\ Write(min_price.price, "price")
    /\ ppc' = "title"
    /\ UNCHANGED <<row_indexes, cells0, outcome, idx, status, min_price>>
    /\ UNCHANGED <<f_vars, e_vars, r_vars>>

\* line 81
WriteTitle ==
    /\ InLoop /\ ppc = "title"
    /\ Write(min_price.title, "title")
    /\ ppc' = "stock"
    /\ UNCHANGED <<row_indexes, cells0, outcome, idx, status, min_price>>
    /\ UNCHANGED <<f_vars, e_vars, r_vars>>

\* line 82
WriteStock ==
    /\ InLoop /\ ppc = "stock"
    /\ Write(min_price.stock, "stock")
    /\ ppc' = "sleep"
    /\ UNCHANGED <<row_indexes, cells0, outcome, idx, status, min_price>>
    /\ UNCHANGED <<f_vars, e_vars, r_vars>>

\* lines 83 to 89: the sleep, of ROW_TIME_SLEEP seconds or of 3
Sleep ==
    /\ InLoop /\ ppc = "sleep"
    /\ ppc' = "status"
    /\ UNCHANGED <<row_indexes, cells, cells0, writes, outcome, idx, status, min_price>>
    /\ UNCHANGED <<f_vars, e_vars, r_vars>>

\* line 94
WriteStatus ==
    /\ InLoop /\ ppc = "status"
    /\ Write(status, "status")
    /\ ppc' = "time"
    /\ UNCHANGED <<row_indexes, cells0, outcome, idx, status, min_price>>
    /\ UNCHANGED <<f_vars, e_vars, r_vars>>

\* lines 95 to 97
WriteTime ==
    /\ InLoop /\ ppc = "time"
    /\ Write(Now, "time")
    /\ NextRow(min_price.kind)
    /\ UNCHANGED <<row_indexes, cells0, status, min_price, f_vars, e_vars, r_vars>>

(***************************************************************************)
(* Specifications.  Spec is the ranking step; SpecFilter, SpecExtract and  *)
(* SpecProcess run the filter alone, the extraction of one fragment, and   *)
(* one pass of process.                                                    *)
(***************************************************************************)
Init == RankInit /\ FilterIdle /\ ExtractIdle /\ ProcessIdle
Next == GetDdMinPrice
Spec == Init /\ [][Next]_vars

InitFilter == FilterInit /\ ExtractIdle /\ RankIdle /\ ProcessIdle
NextFilter == ApplyCall
SpecFilter == InitFilter /\ [][NextFilter]_vars

InitExtract == ExtractInit /\ FilterIdle /\ RankIdle /\ ProcessIdle
NextExtract ==
    \/ SectionTitle
    \/ SectionPrice
    \/ SectionStock
    \/ SectionRates
    \/ SectionCredit
    \/ SectionQuantity
SpecExtract == InitExtract /\ [][NextExtract]_vars

InitProcess == ProcessInit /\ FilterIdle /\ ExtractIdle /\ RankIdle
NextProcess ==
    \/ RowRaised
    \/ WriteErrorTime
    \/ RowNotARow
    \/ RowLoaded
    \/ Select
    \/ WritePrice
    \/ WriteTitle
    \/ WriteStock
    \/ Sleep
    \/ WriteStatus
    \/ WriteTime
SpecProcess == InitProcess /\ [][NextProcess]_vars

(***************************************************************************)
(* Properties of FilterParams.apply (SpecFilter)                           *)
(***************************************************************************)

\* C2: with integer thresholds stockMin >= 0 and levelMin >= 0, apply is
\* true exactly when creditRating >= levelMin and stock >= stockMin; the
\* thresholds are inclusive and a threshold of 0 accepts every record on
\* that check.
Thm_C2_apply_iff_inclusive ==
    (f_pc = "done" /\ f_params.level_min # None /\ f_params.stock_min # None)
        => /\ f_result <=> (/\ f_product.credit_rating >= f_params.level_min[1]
                            /\ f_product.stock >= f_params.stock_min[1])
           /\ (f_params.level_min = Some(0) /\ f_params.stock_min = Some(0)) => f_result
           /\ (f_params.level_min = Some(0)) =>
                (f_result <=> f_product.stock >= f_params.stock_min[1])
           /\ (f_params.stock_min = Some(0)) =>
                (f_result <=> f_product.credit_rating >= f_params.level_min[1])

\* a record exactly at both non-zero thresholds was accepted
Wit_C2_at_thresholds ==
    /\ f_pc = "done"
    /\ f_params = [stock_min |-> Some(MaxStock), level_min |-> Some(2)]
    /\ f_product = [stock |-> MaxStock, credit_rating |-> 2]
    /\ f_result

(***************************************************************************)
(* Properties of the ranking step (Spec)                                   *)
(***************************************************************************)
\* the caller's records, in the caller's order
Input == [i \in 1..Len(snapshot.list) |-> snapshot.objs[snapshot.list[i]]]

\* the positions of the records that pass the filter
Eligible == {i \in 1..Len(Input) : apply(filterParams, Input[i])}

\* the eligible positions no eligible record is cheaper than
Cheapest == {i \in Eligible : \A j \in Eligible : ~FloatLess(Input[j].price, Input[i].price)}

TupleOf(o) == [kind |-> "tuple", price |-> o.price, title |-> o.title, stock |-> o.stock]

\* the text after the first "=" of a sell rate, currency unit stripped
RateNumberText(rate) == strip(remove(split(rate, "=")[2], "U+5143"))

\* a sell rate that is empty, lacks "=", or has after the "=" a text that
\* float() does not read as a number
NoRate(rate) == ~Contains(rate, "=") \/ IsError(float(RateNumberText(rate)))

\* the sort key as specified: +infinity for a rate that is no rate
SpecKey(o) == IF NoRate(o.exchange_rate_2) THEN Inf ELSE float(RateNumberText(o.exchange_rate_2))

\* C1: the result is None exactly when no record passes the filter, and
\* otherwise the (price, title, stock) of an eligible record that no other
\* eligible record is cheaper than.
Claim_C1_min_of_eligible ==
    rpc = "done" =>
        /\ dd_min_price.kind = "None" <=> Eligible = {}
        /\ Eligible # {} => \E i \in Cheapest : dd_min_price = TupleOf(Input[i])

\* C3: a record whose sell rate is empty, lacks "=" or is malformed gets
\* the sort key +infinity, and the ranking step completes without raising.
Claim_C3_no_parse_failure_propagates ==
    rpc = "done" =>
        /\ \A i \in 1..Len(Input) :
              NoRate(Input[i].exchange_rate_2) => sort_key(Input[i]) = Inf
        /\ dd_min_price.kind # "ValueError"

\* C4: when several eligible records share the minimum price, the winner is
\* the one with the smallest sort key, and among equal sort keys the one
\* earliest in the input.
Claim_C4_tie_break ==
    (rpc = "done" /\ Cardinality(Cheapest) >= 2) =>
        \E i \in Cheapest :
            /\ \A j \in Cheapest \ {i} :
                  \/ FloatLess(SpecKey(Input[i]), SpecKey(Input[j]))
                  \/ FloatEq(SpecKey(Input[i]), SpecKey(Input[j])) /\ i < j
            /\ dd_min_price = TupleOf(Input[i])

\* C9: the ranking step leaves the caller's list with the same length, the
\* same order and the same field values in every record, and the records
\* it returns are copies: none of them is one of the caller's objects.
Thm_C9_caller_data_untouched ==
    /\ listOffers = snapshot.list
    /\ Len(heap) >= Len(snapshot.objs)
    /\ \A i \in 1..Len(snapshot.objs) : heap[i] = snapshot.objs[i]
    /\ rpc = "done" =>
          \A k \in 1..Len(valid_offers) :
              \A i \in 1..Len(listOffers) : valid_offers[k] # listOffers[i]

\* the step returned two or more records in an order other than the
\* caller's
Wit_C9_returned_reordered ==
    /\ rpc = "done"
    /\ dd_min_price.kind = "tuple"
    /\ Len(valid_offers) >= 2
    /\ valid_offers[1] > valid_offers[2]

(***************************************************************************)
(* Properties of from_html_element (SpecExtract).  After a section has run *)
(* epc names the next one and sel holds what the section's selectors       *)
(* returned.                                                               *)
(***************************************************************************)
\* the title has the form <N><suffix>=<rest>: a digit before the first "="
TitleHasN(title) ==
    /\ Contains(title, "=")
    /\ \E i \in 1..(IndexOf(title, "=") - 1) : title[i] \in Digits

\* the digits of N as the title writes them, and N: the first integer
\* before the first "="
TitleDigits(title) == search_digits(SubSeq(title, 1, IndexOf(title, "=") - 1))[1]

TitleN(title) == ToInt(TitleDigits(title))

\* a * b for naturals in binary digits, b with or without leading zeros
RECURSIVE BigMul(_, _)
BigMul(a, b) ==
    IF Len(a) = 0 \/ Len(b) = 0 THEN <<>>
    ELSE IF Len(b) = 1 THEN (IF b[1] = 1 THEN a ELSE <<>>)
    ELSE BigAdd(BigShl(BigMul(a, SubSeq(b, 1, Len(b) \div 2)), Len(b) - (Len(b) \div 2)),
                BigMul(a, SubSeq(b, (Len(b) \div 2) + 1, Len(b))))

\* the int p is n * m, worked out in binary
IsProduct(p, n, m) == BigOfDecimal(p) = BigMul(BigOfDecimal(n), BigOfDecimal(m))

\* the finite float p is the float of (R * 2^lr) / (D * 2^ld), for
\* naturals R and D # 0: no float is nearer to the quotient of the real
\* numbers, and of two floats equally near it is the one with the even
\* significand.  With u the unit in the last place of p, the distance of
\* p * divisor from the dividend is at most divisor * u / 2, and at most
\* divisor * u / 4 below a power of two, where the floats lie twice as
\* close.
IsNearest(p, R, lr, D, ld) ==
    LET low == IF LowExponent(p) + ld < lr THEN LowExponent(p) + ld ELSE lr
        A == BigShl(BigMul(Significand(p), D), LowExponent(p) + ld - low)
        B == BigShl(R, lr - low)
        H == BigShl(D, LowExponent(p) + ld - low)
        above == BigLess(A, B)
        diff == IF above THEN BigSub(B, A) ELSE BigSub(A, B)
        edge == /\ ~above
                /\ p.exponent > 1
                /\ \A i \in 1..FractionBits : p.fraction[i] = 0
        d2 == BigShl(diff, IF edge THEN 2 ELSE 1)
    IN \/ BigLess(d2, H)
       \/ d2 = H /\ p.fraction[FractionBits] = 0

\* price is the float of raw / N for a float raw and a natural N # 0
IsQuotient(price, raw, N) ==
    IF IsInf(raw) \/ IsNaN(raw) THEN price = raw
    ELSE IF IsInf(price) \/ IsNaN(price) \/ price.sign # raw.sign THEN FALSE
    ELSE IsNearest(price, Significand(raw), LowExponent(raw), N, 0)

\* d is the float nearest to the natural N # 0
IsFloatOf(d, N) ==
    /\ ~IsError(d)
    /\ ~IsInf(d) /\ ~IsNaN(d) /\ d.sign = 0
    /\ IsNearest(d, N, 0, <<1>>, 0)

\* price is the float of raw / d for floats raw and d, d finite and above 0
IsFloatQuotient(price, raw, d) ==
    IF IsInf(raw) \/ IsNaN(raw) THEN price = raw
    ELSE IF IsInf(price) \/ IsNaN(price) \/ price.sign # raw.sign THEN FALSE
    ELSE IsNearest(price, Significand(raw), LowExponent(raw),
                   OddPart(Significand(d)), LowExponent(d) + TrailingZeros(Significand(d)))

\* 2^1024 - 2^970: the naturals below it have a finite float
FloatLimit ==
    [i \in 1..(MaxExponent - ExponentBias) |-> IF i <= FractionBits + 2 THEN 1 ELSE 0]

HasFloat(N) == Len(N) <= 309 /\ BigLess(BigOfDecimal(N), FloatLimit)

\* the record returned has the raw stock and the raw price
Unscaled ==
    /\ epc = "done"
    /\ sel.quantity = IntOf(1)
    /\ product.stock = sel.raw_stock
    /\ product.price = sel.raw_price

Resolved(text) ==
    IF text # None /\ Len(strip(text[1])) > 0 /\ ~int_raises(strip(text[1]))
    THEN Some(ToInt(strip(text[1])))
    ELSE None

\* C6: every fragment has a raw stock, the value of the first resolver
\* that succeeds, in the order labeled pattern, bolded number, legacy
\* element; a resolver that matched is never overridden by a later one,
\* also when it matched 0; the raw stock is 0 when all three fail.
Claim_C6_first_resolver_wins ==
    sel.section = "stock" =>
        /\ epc = "rates"
        /\ product.stock =
            IF Resolved(sel.stock_match) # None THEN Resolved(sel.stock_match)[1]
            ELSE IF Resolved(sel.bold_span) # None THEN Resolved(sel.bold_span)[1]
            ELSE IF Resolved(sel.stock_elem_old) # None THEN Resolved(sel.stock_elem_old)[1]
            ELSE IntOf(0)

\* C7: when the rate container yields no paragraph, whether it is present
\* and empty or absent, and the legacy container holds two or more, the
\* rates are the legacy container's first two paragraphs; when the rate
\* container holds two or more they are its first two; otherwise both stay
\* empty.
Claim_C7_rate_fallback ==
    (epc = "credit" /\ sel.section = "rates") =>
        <<product.exchange_rate_1, product.exchange_rate_2>> =
            IF Len(sel.ps) >= 2 THEN <<strip(sel.ps[1]), strip(sel.ps[2])>>
            ELSE IF Len(sel.ps) = 0 /\ sel.old_rate_div # None /\ Len(sel.old_rate_div[1]) >= 2
                 THEN <<strip(sel.old_rate_div[1][1]), strip(sel.old_rate_div[1][2])>>
                 ELSE <<<<>>, <<>>>>

\* C8: with at least one heart the rating is in 1..5, whatever the icon
\* counts; with no heart and a diamond it is 5 + diamonds; with neither and
\* a crown it is 10 + crowns; every rating is in 0..15 and is 0 only when
\* there is no icon.
Claim_C8_tier_ranges ==
    (epc = "quantity" /\ sel.section = "credit") =>
        /\ sel.hearts > 0 => product.credit_rating \in 1..5
        /\ (sel.hearts = 0 /\ sel.diamonds > 0) => product.credit_rating = 5 + sel.diamonds
        /\ (sel.hearts = 0 /\ sel.diamonds = 0 /\ sel.crowns > 0)
              => product.credit_rating = 10 + sel.crowns
        /\ product.credit_rating \in 0..15
        /\ product.credit_rating = 0
              <=> (sel.hearts = 0 /\ sel.diamonds = 0 /\ sel.crowns = 0)

(***************************************************************************)
(* Properties of process (SpecProcess)                                     *)
(***************************************************************************)
\* the calls of write_to_log_cell for a row, in order
RowCalls(r) == SelectSeq(writes, LAMBDA c : c.row = r)

LogTypes(calls) == [k \in 1..Len(calls) |-> calls[k].log_type]

IsPrefix(s, t) == Len(s) <= Len(t) /\ \A k \in 1..Len(s) : s[k] = t[k]

\* the iteration of row r has got past the selection, which returned
WasSelected(r) ==
    /\ InLoop
    /\ row_indexes[idx] = r
    /\ ppc \in {"price", "title", "stock", "sleep", "status", "time"}

\* the calls the iteration has made for its row when it is at pc and the
\* selection returned an offer, and when it returned none
CallsBefore(pc) ==
    CASE pc = "price" -> 0 [] pc = "title" -> 1 [] pc = "stock" -> 2
      [] pc = "sleep" -> 3 [] pc = "status" -> 3 [] pc = "time" -> 4

\* C10: within one pass, for every row that loads: price, title and stock
\* are written only if the selection returned an offer, and the status
\* written after them is FOUND, followed by a time write; if the selection
\* returned no offer the status written is NOT FOUND and the row's price,
\* title and stock cells are unchanged; if the selection raised, neither
\* status nor time is written and the loop goes on to the next row; FOUND
\* is never written for a row whose price, title and stock were not
\* written.  A write is a call of write_to_log_cell: an update_cell that
\* fails is caught there and leaves the cell as it was.  The calls are
\* steps of their own, so the property is stated for every point of an
\* iteration: the calls made for a row so far are the start of the row's
\* sequence, and the whole of it once the iteration has ended.
Thm_C10_row_write_protocol ==
    /\ \A r \in DOMAIN outcome :
        LET calls == RowCalls(r)
            offered == WasSelected(r) /\ min_price.kind = "tuple"
            nothing == WasSelected(r) /\ min_price.kind = "None"
        IN /\ outcome[r] = "tuple" =>
                /\ LogTypes(calls) = <<"price", "title", "stock", "status", "time">>
                /\ calls[4].log_str = "FOUND"
           /\ offered =>
                /\ LogTypes(calls)
                     = SubSeq(<<"price", "title", "stock", "status", "time">>, 1, CallsBefore(ppc))
                /\ Len(calls) >= 4 => calls[4].log_str = "FOUND"
                /\ status = "FOUND"
           /\ outcome[r] = "None" =>
                /\ LogTypes(calls) = <<"status", "time">>
                /\ calls[1].log_str = "NOT FOUND"
           /\ nothing =>
                /\ LogTypes(calls) = IF ppc = "time" THEN <<"status">> ELSE <<>>
                /\ Len(calls) >= 1 => calls[1].log_str = "NOT FOUND"
                /\ status = "NOT FOUND"
           /\ (outcome[r] = "None" \/ nothing) =>
                /\ cells[r].I = cells0[r].I
                /\ cells[r].J = cells0[r].J
                /\ cells[r].K = cells0[r].K
           /\ outcome[r] = "Exception" =>
                /\ calls = <<>>
                /\ cells[r] = cells0[r]
           /\ (\E k \in 1..Len(calls) : calls[k].log_type \in {"price", "title", "stock"})
                => (outcome[r] = "tuple" \/ offered)
           /\ \A k \in 1..Len(calls) :
                (calls[k].log_type = "status" /\ calls[k].log_str = "FOUND") =>
                    /\ k = 4
                    /\ LogTypes(SubSeq(calls, 1, 3)) = <<"price", "title", "stock">>
    \* whatever a row did, the loop goes on while rows are left
    /\ \A k \in 1..Len(row_indexes) :
        IF k < idx THEN outcome[row_indexes[k]] # "not run"
        ELSE outcome[row_indexes[k]] = "not run"
    /\ InLoop => ENABLED NextProcess

\* the selection raised for row 1, the loop went on and found an offer for
\* row 2, whose five writes all reached the sheet
Wit_C10_found_after_raise ==
    /\ row_indexes = <<1, 2>>
    /\ idx = 3
    /\ outcome[1] = "Exception"
    /\ outcome[2] = "tuple"
    /\ Len(writes) = 5
    /\ cells[2].E = Some("FOUND")
    /\ cells[2].I = Some(float(<<"0", ".", "1">>))
    /\ cells[2].K = Some(5)

====
